---- MODULE Spec2Model ----
(***************************************************************************)
(* A model of simple-yaml-parser's scanner, parse_with_exit_signal         *)
(* (src/lib.rs:84-252): a character-driven state machine over the input    *)
(* `on`, with the key chain, the running list ordinal, the indentation     *)
(* counter and the start offset as its state, and one callback invocation  *)
(* per emitted (key-path, value) event.                                    *)
(*                                                                         *)
(* Characters are one-character strings.  The alphabet of the model is     *)
(* ASCII, so a byte offset of the source (char_indices) is the 0-based     *)
(* index of the character; on[idx + 1] is the character at offset idx.     *)
(***************************************************************************)
EXTENDS Integers, Sequences, FiniteSets

VARIABLES
    on,           \* the input text (parameter `on`), a sequence of characters
    indent_size,  \* options.indent_size
    pos,          \* offset of the next character char_indices yields
    key_chain,    \* Vec<YAMLKey>
    state,        \* State
    list_idx,     \* running list ordinal
    indent,       \* accumulated indentation columns
    start,        \* start offset of the text being assembled
    events,       \* the callback invocations so far, in order
    exit_at,      \* 0, or the number of the first event on which cb returned true
    result,       \* "running", "Ok", "Err" or "panic"
    previous      \* what the earlier calls on this input returned, oldest first

vars == <<on, indent_size, pos, key_chain, state, list_idx, indent, start,
          events, exit_at, result, previous>>

NL  == "\n"
TAB == "\t"
SP  == " "

\* -------------------------------------------------------------------------
\* Text helpers

\* char::is_whitespace, on the characters a model input can hold
IsWhitespace(c) == c \in {SP, TAB, NL, "\r"}

MinOf(S) == CHOOSE x \in S : \A y \in S : x <= y
MaxOf(S) == CHOOSE x \in S : \A y \in S : y <= x

\* str::trim: the text without its leading and trailing whitespace
Trim(s) ==
    LET keep == {i \in 1..Len(s) : ~IsWhitespace(s[i])}
    IN  IF keep = {} THEN <<>> ELSE SubSeq(s, MinOf(keep), MaxOf(keep))

\* &on[from..to] is defined (does not panic) iff from <= to <= on.len()
SliceOk(from, to) == from <= to /\ to <= Len(on)

\* &on[from..to]
Slice(from, to) == SubSeq(on, from + 1, to)

\* Vec::drain(from..) is defined (does not panic) iff from <= len
DrainOk(from, chain) == from <= Len(chain)

\* the chain after drop(chain.drain(from..)): its first `from` entries
Drain(from, chain) == SubSeq(chain, 1, from)

\* Vec::pop: drops the last entry, if any
Pop(chain) == IF chain = <<>> THEN chain ELSE SubSeq(chain, 1, Len(chain) - 1)

\* -------------------------------------------------------------------------
\* Data model

\* YAMLKey::Slice(text), YAMLKey::Index(i)
KeySlice(text) == [tag |-> "Slice", text |-> text, idx |-> 0]
KeyIndex(i)    == [tag |-> "Index", text |-> <<>>, idx |-> i]

\* (variant) every scalar is a String: the literals are not recognised
ScalarValueNoLiterals(text) ==
    [tag |-> "String", on |-> text, collapse |-> FALSE,
     preserve_leading_whitespace |-> FALSE]

\* RootYAMLValue::{String, True, False}, chosen from the trimmed text
ScalarValue(text) ==
    IF text = <<"t", "r", "u", "e">>
    THEN [tag |-> "True", on |-> <<>>, collapse |-> FALSE,
          preserve_leading_whitespace |-> FALSE]
    ELSE IF text = <<"f", "a", "l", "s", "e">>
    THEN [tag |-> "False", on |-> <<>>, collapse |-> FALSE,
          preserve_leading_whitespace |-> FALSE]
    ELSE [tag |-> "String", on |-> text, collapse |-> FALSE,
          preserve_leading_whitespace |-> FALSE]

\* RootYAMLValue::MultilineString(MultilineString { on, collapse, .. })
MultilineValue(text, collapse, plw) ==
    [tag |-> "MultilineString", on |-> text, collapse |-> collapse,
     preserve_leading_whitespace |-> plw]

\* enum State; the three fields are those of State::Multiline
StateOf(tag) ==
    [tag |-> tag, collapse |-> FALSE, preserve_leading_whitespace |-> FALSE,
     indent |-> 0]
StateMultiline(collapse, plw, ind) ==
    [tag |-> "Multiline", collapse |-> collapse,
     preserve_leading_whitespace |-> plw, indent |-> ind]

\* the `modifier` match of State::Value: <<collapse, preserve_leading_whitespace>>
\* for "|" and ">", <<>> (None) otherwise
Modifier(rest_of_line) ==
    IF rest_of_line = <<"|">> THEN <<TRUE, FALSE>>
    ELSE IF rest_of_line = <<">">> THEN <<FALSE, FALSE>>
    ELSE <<>>

\* key_chain.iter().filter(|key| matches!(key, YAMLKey::Slice(_))).count()
RECURSIVE SliceCount(_)
SliceCount(chain) ==
    IF chain = <<>> THEN 0
    ELSE (IF chain[Len(chain)].tag = "Slice" THEN 1 ELSE 0)
         + SliceCount(SubSeq(chain, 1, Len(chain) - 1))

\* indent / options.indent_size
CurrentLevel == indent \div indent_size

\* the look-ahead of State::Multiline over on[from..]: the number of leading
\* tabs and spaces (each counts 1) ...
RECURSIVE UpcomingIndent(_)
UpcomingIndent(from) ==
    IF from < Len(on) /\ on[from + 1] \in {TAB, SP}
    THEN 1 + UpcomingIndent(from + 1) ELSE 0

\* (here only a line with nothing before its newline counts as empty)
UpcomingIsEmptyBare(from) == from < Len(on) /\ on[from + 1] = NL

\* ... and whether a newline follows them
UpcomingIsEmpty(from) ==
    LET after == from + UpcomingIndent(from)
    IN  after < Len(on) /\ on[after + 1] = NL

\* -------------------------------------------------------------------------
\* The callback

\* cb(&key_chain, value): the event is observed; the callback returns any
\* boolean, and the scanner does not read it
Emit(keys, value, idx) ==
    /\ events' = Append(events, [keys |-> keys, value |-> value, at |-> idx])
    /\ \E signal \in BOOLEAN :
          exit_at' = IF exit_at = 0 /\ signal THEN Len(events) + 1 ELSE exit_at

NoEmit == UNCHANGED <<events, exit_at>>

\* a panic unwinds out of the function
Panic ==
    /\ result' = "panic"
    /\ UNCHANGED <<on, indent_size, pos, key_chain, state, list_idx, indent,
                   start, events, exit_at, previous>>

\* the loop has a next (idx, chr)
Running == result = "running" /\ pos < Len(on)

\* what every loop iteration does besides its match arm
Advance == pos' = pos + 1 /\ UNCHANGED <<on, indent_size, result, previous>>

\* -------------------------------------------------------------------------
\* The match arms

Value ==
    /\ Running
    /\ state.tag = "Value"
    /\ LET idx == pos
           chr == on[pos + 1]
       IN  IF ~SliceOk(start, idx) THEN Panic
           ELSE
             LET rest_of_line == Trim(Slice(start, idx)) IN
             /\ Advance
             /\ IF rest_of_line = <<>> /\ chr = "-"
                THEN /\ state' = StateOf("ListItem")
                     /\ start' = idx + 1
                     /\ UNCHANGED <<key_chain, list_idx, indent>>
                     /\ NoEmit
                ELSE IF chr = NL
                THEN /\ indent' = 0
                     /\ UNCHANGED list_idx
                     /\ IF rest_of_line = <<>>
                        THEN /\ state' = StateOf("Skip")
                             /\ UNCHANGED <<key_chain, start>>
                             /\ NoEmit
                        ELSE IF Modifier(rest_of_line) # <<>>
                        THEN /\ state' = StateMultiline(Modifier(rest_of_line)[1],
                                                        Modifier(rest_of_line)[2],
                                                        indent)
                             /\ start' = idx
                             /\ UNCHANGED key_chain
                             /\ NoEmit
                        ELSE /\ Emit(key_chain, ScalarValue(Trim(Slice(start, idx))), idx)
                             /\ key_chain' = Pop(key_chain)
                             /\ state' = StateOf("Skip")
                             /\ UNCHANGED start
                ELSE /\ UNCHANGED <<key_chain, state, list_idx, indent, start>>
                     /\ NoEmit

Multiline ==
    /\ Running
    /\ state.tag = "Multiline"
    /\ LET idx == pos
           chr == on[pos + 1]
           current_indent == state.indent
       IN  IF chr = NL
           THEN IF ~SliceOk(idx + 1, Len(on)) THEN Panic
                ELSE
                  LET upcoming_indent == UpcomingIndent(idx + 1)
                      is_empty == UpcomingIsEmpty(idx + 1)
                  IN  IF ~is_empty /\ upcoming_indent <= current_indent
                      THEN IF ~SliceOk(start, idx) THEN Panic
                           ELSE /\ Advance
                                /\ Emit(key_chain,
                                        MultilineValue(Slice(start, idx), state.collapse,
                                                       state.preserve_leading_whitespace),
                                        idx)
                                /\ key_chain' = Pop(key_chain)
                                /\ state' = StateOf("Skip")
                                /\ indent' = 0
                                /\ UNCHANGED <<list_idx, start>>
                      ELSE /\ Advance
                           /\ UNCHANGED <<key_chain, state, list_idx, indent, start>>
                           /\ NoEmit
           ELSE /\ Advance
                /\ UNCHANGED <<key_chain, state, list_idx, indent, start>>
                /\ NoEmit

\* (variant) the key chain is truncated one level late
IdentifierDrainsLate(current_level, chain) == current_level + 1 < SliceCount(chain)

\* (variant) the key chain is never truncated
IdentifierDrainsNever(current_level, chain) == FALSE

\* (variant) the level is compared with the length of the key chain, Index
\* entries included
IdentifierDrainsByLength(current_level, chain) == current_level < Len(chain)

\* `if current_level < keys` of State::Identifier
IdentifierDrains(current_level, chain) == current_level < SliceCount(chain)

Identifier ==
    /\ Running
    /\ state.tag = "Identifier"
    /\ LET idx == pos
           chr == on[pos + 1]
       IN  IF chr = ":"
           THEN IF ~SliceOk(start, idx) THEN Panic
                ELSE
                  LET key == KeySlice(Trim(Slice(start, idx)))
                      current_level == CurrentLevel
                  IN  IF IdentifierDrains(current_level, key_chain)
                      THEN IF ~DrainOk(current_level, key_chain) THEN Panic
                           ELSE
                             LET kept == Drain(current_level, key_chain) IN
                             /\ Advance
                             /\ list_idx' = IF kept # <<>> /\ kept[Len(kept)].tag = "Index"
                                            THEN kept[Len(kept)].idx ELSE 0
                             /\ key_chain' = Append(kept, key)
                             /\ state' = StateOf("Value")
                             /\ start' = idx + 1
                             /\ UNCHANGED indent
                             /\ NoEmit
                      ELSE /\ Advance
                           /\ key_chain' = Append(key_chain, key)
                           /\ state' = StateOf("Value")
                           /\ start' = idx + 1
                           /\ UNCHANGED <<list_idx, indent>>
                           /\ NoEmit
           ELSE /\ Advance
                /\ UNCHANGED <<key_chain, state, list_idx, indent, start>>
                /\ NoEmit

\* (variant) the key chain is truncated without the length test
ListItemDrainsAlways(current_level, chain) == TRUE

\* `if current_level < key_chain.len()` of State::ListItem
ListItemDrains(current_level, chain) == current_level < Len(chain)

ListItem ==
    /\ Running
    /\ state.tag = "ListItem"
    /\ LET idx == pos
           chr == on[pos + 1]
       IN  IF chr = ":"
           THEN LET current_level == CurrentLevel
                    drains == ListItemDrains(current_level, key_chain)
                IN  IF drains /\ ~DrainOk(current_level + 1, key_chain) THEN Panic
                    ELSE IF ~SliceOk(start, idx) THEN Panic
                    ELSE
                      LET kept == IF drains THEN Drain(current_level + 1, key_chain)
                                  ELSE key_chain
                      IN  /\ Advance
                          /\ key_chain' = kept \o <<KeyIndex(list_idx),
                                                    KeySlice(Trim(Slice(start, idx)))>>
                          /\ state' = StateOf("Value")
                          /\ start' = idx + 1
                          /\ list_idx' = list_idx + 1
                          /\ UNCHANGED indent
                          /\ NoEmit
           ELSE IF chr = NL
           THEN IF ~SliceOk(start, idx) THEN Panic
                ELSE /\ Advance
                     /\ Emit(Append(key_chain, KeyIndex(list_idx)),
                             ScalarValue(Trim(Slice(start, idx))), idx)
                     /\ key_chain' = Pop(Append(key_chain, KeyIndex(list_idx)))
                     /\ list_idx' = list_idx + 1
                     /\ state' = StateOf("Skip")
                     /\ indent' = 0
                     /\ UNCHANGED start
           ELSE /\ Advance
                /\ UNCHANGED <<key_chain, state, list_idx, indent, start>>
                /\ NoEmit

Skip ==
    /\ Running
    /\ state.tag = "Skip"
    /\ LET idx == pos
           chr == on[pos + 1]
       IN  /\ Advance
           /\ NoEmit
           /\ UNCHANGED <<key_chain, list_idx>>
           /\ IF chr = "-"
              THEN state' = StateOf("ListItem") /\ start' = idx + 1 /\ UNCHANGED indent
              ELSE IF chr = TAB
              THEN indent' = indent + indent_size /\ UNCHANGED <<state, start>>
              ELSE IF chr = SP
              THEN indent' = indent + 1 /\ UNCHANGED <<state, start>>
              ELSE IF ~IsWhitespace(chr)
              THEN state' = StateOf("Identifier") /\ start' = idx /\ UNCHANGED indent
              ELSE UNCHANGED <<state, indent, start>>

\* (variant) the end of the loop flushes a scalar value still pending
ReturnFlushing ==
    /\ result = "running"
    /\ pos = Len(on)
    /\ result' = "Ok"
    /\ IF state.tag = "Value" /\ Trim(Slice(start, Len(on))) # <<>>
       THEN Emit(key_chain, ScalarValue(Trim(Slice(start, Len(on)))), Len(on))
       ELSE NoEmit
    /\ UNCHANGED <<on, indent_size, pos, key_chain, state, list_idx, indent, start,
                   previous>>

\* the end of the loop: `Ok(())`
Return ==
    /\ result = "running"
    /\ pos = Len(on)
    /\ result' = "Ok"
    /\ NoEmit
    /\ UNCHANGED <<on, indent_size, pos, key_chain, state, list_idx, indent, start,
                   previous>>

\* -------------------------------------------------------------------------
\* Inputs: the documents and options the scanner is run on

MaxLen   == 4   \* longest document of the exhaustive family, in characters
MaxLines == 3   \* most lines of a document of the line families
MaxLevel == 2   \* deepest indentation level of a line of the line families

\* ParseOptions::default().indent_size
DefaultIndentSize == 2

IndentSizes == {1, DefaultIndentSize}

\* the sample document of the example program, after trim_start()
ExampleDoc ==
        <<"p", "e", "r", "s", "o", "n", ":", NL>> \o
        <<SP, SP, "n", "a", "m", "e", ":", SP, "J", "o", "h", "n", SP, "D", "o", "e", NL>> \o
        <<SP, SP, "d", "e", "s", "c", "r", "i", "p", "t", "i", "o", "n", ":", SP, "|", NL>> \o
        <<SP, SP, SP, SP, "s", "o", "m", "e", "t", "h", "i", "n", "g", SP, "h", "e", "r", "e", NL>> \o
        <<SP, SP, SP, SP, "t", "h", "a", "t", SP, "s", "p", "a", "n", "s", SP, "m", "u", "l", "t", "i", "p", "l", "e", SP, "l", "i", "n", "e", "s", NL>> \o
        <<SP, SP, "a", "g", "e", ":", SP, "3", "0", NL>> \o
        <<SP, SP, "s", "o", "m", "e", "t", "h", "i", "n", "g", ":", NL>> \o
        <<SP, SP, SP, SP, "x", ":", SP, "t", "r", "u", "e", NL>> \o
        <<SP, SP, "a", "d", "d", "r", "e", "s", "s", ":", NL>> \o
        <<SP, SP, SP, SP, "s", "t", "r", "e", "e", "t", ":", SP, "1", "2", "3", SP, "M", "a", "i", "n", SP, "S", "t", NL>> \o
        <<SP, SP, SP, SP, "c", "i", "t", "y", ":", SP, "E", "x", "a", "m", "p", "l", "e", SP, "C", "i", "t", "y", NL>> \o
        <<"p", "l", "a", "c", "e", "s", ":", NL>> \o
        <<SP, SP, "l", "i", "s", "t", ":", SP, "[", "\"", "s", "o", "m", "e", "t", "h", "i", "n", "g", "\"", ",", SP, "\"", "h", "e", "r", "e", "\"", "]", NL>> \o
        <<SP, SP, "i", "n", "n", "e", "r", ":", NL>> \o
        <<SP, SP, SP, SP, "x", ":", SP, "s", "t", "r", "i", "n", "g", NL>>

\* every document of at most MaxLen characters over Alphabet
Alphabet == {"a", ":", "-", SP, TAB, NL, "|"}
CharDocs == UNION {[1..n -> Alphabet] : n \in 0..MaxLen}

Spaces(n) == [i \in 1..n |-> SP]

RECURSIVE Flatten(_)
Flatten(ls) == IF ls = <<>> THEN <<>> ELSE ls[1] \o Flatten(Tail(ls))

\* the documents of 1..MaxLines lines, the first from `first`, the others from `rest`
DocsOf(first, rest) ==
    UNION { {Flatten(<<f>> \o ls) : f \in first, ls \in [1..(n - 1) -> rest]}
            : n \in 1..MaxLines }

\* a document and the same document without the newline of its last line
WithUnterminated(docs) == docs \cup {SubSeq(d, 1, Len(d) - 1) : d \in docs}

\* the lines `body`, indented `n` spaces per level, at the levels `levels`
LinesOf(bodies, levels, n) == {Spaces(l * n) \o b \o <<NL>> : b \in bodies, l \in levels}

\* unindented lines: scalars, literals, a key alone, block markers, a list
\* item, a line without a colon, a blank line
FlatBodies ==
    { <<"a", ":", SP, "x">>, <<"b", ":", SP, "t", "r", "u", "e">>,
      <<"c", ":", SP, "f", "a", "l", "s", "e">>, <<"a", ":", SP, "-", "x">>,
      <<"a", ":", SP, "|">>, <<"b", ":", SP, ">">>, <<"b", ":">>,
      <<"-", SP, "x">>, <<"x">>, <<>> }
FlatDocs == WithUnterminated(DocsOf(LinesOf(FlatBodies, {0}, 0), LinesOf(FlatBodies, {0}, 0)))

\* nested mappings and block lists, n spaces per level
NestedBodies ==
    { <<"a", ":", SP, "x">>, <<"a", ":">>, <<"b", ":">>,
      <<"-", SP, "x">>, <<"-", SP, "b", ":", SP, "x">> }
NestedDocs(n) ==
    DocsOf(LinesOf(NestedBodies, {0}, n), LinesOf(NestedBodies, 0..MaxLevel, n))

\* block scalars: a marker line, then text, blank lines, keys and list items
MarkerBodies == { <<"a", ":", SP, "|">>, <<"b", ":", SP, ">">> }
BlockBodies  == { <<"x">>, <<>>, <<"c", ":", SP, "x">>, <<"-", SP, "x">> }
BlockDocs(n) ==
    WithUnterminated(DocsOf(LinesOf(MarkerBodies, 0..1, n),
                            LinesOf(BlockBodies, 0..MaxLevel, n)))

\* three levels of mappings closed by a line at the root, and by a line one
\* level up
DeepDocs(n) ==
    { Flatten(<<<<"a", ":", NL>>,
                Spaces(n) \o <<"b", ":", NL>>,
                Spaces(2 * n) \o <<"c", ":", SP, "x", NL>>,
                Spaces(l * n) \o <<"d", ":", SP, "y", NL>>>>) : l \in 0..1 }

\* a list of mappings whose item holds a list of scalars
ItemListDoc ==
    Flatten(<<<<"a", ":", NL>>,
              <<"-", SP, "b", ":", SP, "x", NL>>,
              <<SP, SP, "c", ":", NL>>,
              <<SP, SP, "-", SP, "x", NL>>,
              <<SP, SP, "-", SP, "y", NL>>>>)

Tabs(n) == [i \in 1..n |-> TAB]

\* a block scalar under a key indented with one tab, its two follow-on lines
\* indented with tabs, the second a text line or a line of tabs only
TabBlockDocs ==
    { Flatten(<<<<"a", ":", NL>>,
                <<TAB, "b", ":", SP, "|", NL>>,
                Tabs(k) \o <<"x", NL>>,
                Tabs(j) \o y \o <<NL>>,
                <<"c", ":", SP, "x", NL>>>>) : k, j \in 0..MaxLevel, y \in {<<"y">>, <<>>} }

\* a list whose second item is a mapping that holds a mapping of two keys
ListResumeDoc ==
    Flatten(<<<<"l", ":", NL>>,
              <<"-", SP, "x", NL>>,
              <<"-", SP, "b", ":", NL>>,
              <<SP, SP, SP, SP, "c", ":", NL>>,
              <<SP, SP, SP, SP, "d", ":", SP, "y", NL>>>>)

\* a nested mapping, a line of two spaces, then a key at the root
BlankLineDoc ==
    Flatten(<<<<"a", ":", NL>>,
              <<SP, SP, "b", ":", SP, "x", NL>>,
              <<SP, SP, NL>>,
              <<"c", ":", SP, "y", NL>>>>)

\* the documents scanned with indent_size = n
Inputs(n) ==
    CharDocs \cup FlatDocs \cup NestedDocs(n) \cup BlockDocs(n) \cup DeepDocs(n)
    \cup TabBlockDocs \cup {ItemListDoc, ListResumeDoc, BlankLineDoc, ExampleDoc}

Init ==
    /\ indent_size \in IndentSizes
    /\ on \in Inputs(indent_size)
    /\ pos = 0
    /\ key_chain = <<>>
    /\ state = StateOf("Identifier")
    /\ list_idx = 0
    /\ indent = 0
    /\ start = 0
    /\ events = <<>>
    /\ exit_at = 0
    /\ result = "running"
    /\ previous = <<>>

Next ==
    \/ Value
    \/ Multiline
    \/ Identifier
    \/ ListItem
    \/ Skip
    \/ Return

Spec == Init /\ [][Next]_vars

\* a second call of parse_with_exit_signal on the same input and options,
\* once the first has returned: the locals are initialised anew
\* (here the running list ordinal is carried over from the first call)
RescanKeepingOrdinal ==
    /\ result # "running"
    /\ previous = <<>>
    /\ previous' = <<[events |-> events, exit_at |-> exit_at, result |-> result]>>
    /\ pos' = 0
    /\ key_chain' = <<>>
    /\ state' = StateOf("Identifier")
    /\ indent' = 0
    /\ start' = 0
    /\ events' = <<>>
    /\ exit_at' = 0
    /\ result' = "running"
    /\ UNCHANGED <<on, indent_size, list_idx>>

Rescan ==
    /\ result # "running"
    /\ previous = <<>>
    /\ previous' = <<[events |-> events, exit_at |-> exit_at, result |-> result]>>
    /\ pos' = 0
    /\ key_chain' = <<>>
    /\ state' = StateOf("Identifier")
    /\ list_idx' = 0
    /\ indent' = 0
    /\ start' = 0
    /\ events' = <<>>
    /\ exit_at' = 0
    /\ result' = "running"
    /\ UNCHANGED <<on, indent_size>>

NextRescan == Next \/ Rescan

\* the documents that are scanned twice
RescanInputs == CharDocs \cup FlatDocs \cup TabBlockDocs \cup {ItemListDoc, ExampleDoc}

InitRescan == Init /\ on \in RescanInputs

SpecRescan == InitRescan /\ [][NextRescan]_vars

\* =========================================================================
\* Properties
\* =========================================================================

\* -------------------------------------------------------------------------
\* Reading a document by lines

Terminated(s) == s # <<>> /\ s[Len(s)] = NL

\* offset of the first newline of s at or after offset `from`, Len(s) if none
RECURSIVE NextNL(_, _)
NextNL(s, from) ==
    IF from >= Len(s) \/ s[from + 1] = NL THEN from ELSE NextNL(s, from + 1)

\* the lines of s, without their newlines
RECURSIVE SplitLines(_)
SplitLines(s) ==
    IF s = <<>> THEN <<>>
    ELSE LET nl == NextNL(s, 0)
         IN  <<SubSeq(s, 1, nl)>> \o SplitLines(SubSeq(s, nl + 2, Len(s)))

\* the number of spaces a line begins with
RECURSIVE LeadingSpaces(_)
LeadingSpaces(l) ==
    IF l # <<>> /\ l[1] = SP THEN 1 + LeadingSpaces(Tail(l)) ELSE 0

\* index of the first colon of a line, 0 if it has none
ColonAt(l) ==
    LET cs == {i \in 1..Len(l) : l[i] = ":"}
    IN  IF cs = {} THEN 0 ELSE MinOf(cs)

KeyText(l)   == Trim(SubSeq(l, 1, ColonAt(l) - 1))
ValueText(l) == Trim(SubSeq(l, ColonAt(l) + 1, Len(l)))

IsMarker(text) == text \in {<<"|">>, <<">">>}

\* a `key: ...` line: after its indentation of spaces, a non-empty key that
\* starts neither a list item nor with whitespace, then a colon
IsKeyLine(l) ==
    LET body == SubSeq(l, LeadingSpaces(l) + 1, Len(l))
    IN  /\ body # <<>>
        /\ ~IsWhitespace(body[1])
        /\ body[1] \notin {"-", ":"}
        /\ ColonAt(l) > 0

\* a `key: value` line with a one-line scalar value
IsScalarLine(l) ==
    IsKeyLine(l) /\ ValueText(l) # <<>> /\ ~IsMarker(ValueText(l))

\* ... written `key: value`, with a space after the colon
IsSpacedScalarLine(l) == IsScalarLine(l) /\ l[ColonAt(l) + 1] = SP

\* ... whose value does not begin with the list-item dash
IsPlainScalarLine(l) == IsScalarLine(l) /\ ValueText(l)[1] # "-"

\* the value a scalar text stands for
LiteralOf(text) ==
    IF text = <<"t", "r", "u", "e">> THEN <<"True", <<>>>>
    ELSE IF text = <<"f", "a", "l", "s", "e">> THEN <<"False", <<>>>>
    ELSE <<"String", text>>

\* the texts of the keys of a key-path; an Index key, which has no text, reads
\* as a text no Slice key has
NamedPath(keys) ==
    [i \in 1..Len(keys) |->
        IF keys[i].tag = "Slice" THEN keys[i].text ELSE <<"Index">>]

\* what the callback saw: per event, the key texts and the value
Observed ==
    [n \in 1..Len(events) |->
        <<NamedPath(events[n].keys), <<events[n].value.tag, events[n].value.on>>>>]

Done == result # "running"

\* -------------------------------------------------------------------------
\* C1  Cancellation: once the callback has returned true on the k-th event,
\* it is not invoked a (k+1)-th time, and the function returns Ok(()).
C1_Cancellation ==
    exit_at # 0 => /\ Len(events) = exit_at
                   /\ Done => result = "Ok"

\* -------------------------------------------------------------------------
\* C2  Nested mappings and dedent.

\* a document of nested mappings, n spaces per level: key lines only, the
\* first at level 0, a line at most one level deeper than a key without a
\* value before it and no deeper than a leaf before it
LevelOf(l, n) == LeadingSpaces(l) \div n

IsNestedMapping(s, n, IsLeaf(_)) ==
    LET ls == SplitLines(s)
    IN  /\ Terminated(s)
        /\ \A i \in 1..Len(ls) :
              /\ IsKeyLine(ls[i])
              /\ LeadingSpaces(ls[i]) % n = 0
              /\ ValueText(ls[i]) = <<>> \/ IsLeaf(ls[i])
        /\ LevelOf(ls[1], n) = 0
        /\ \A i \in 2..Len(ls) :
              LevelOf(ls[i], n) <=
                  LevelOf(ls[i - 1], n) + (IF ValueText(ls[i - 1]) = <<>> THEN 1 ELSE 0)

\* the ancestor of line i at level j: the last line before it at that level
Ancestor(ls, n, i, j) ==
    ls[MaxOf({k \in 1..(i - 1) : LevelOf(ls[k], n) = j})]

\* the key-path of line i: its ancestors' keys, then its own
PathOf(ls, n, i) ==
    [j \in 1..(LevelOf(ls[i], n) + 1) |->
        IF j = LevelOf(ls[i], n) + 1 THEN KeyText(ls[i])
        ELSE KeyText(Ancestor(ls, n, i, j - 1))]

RECURSIVE LeafEvents(_, _, _)
LeafEvents(ls, n, i) ==
    IF i > Len(ls) THEN <<>>
    ELSE (IF ValueText(ls[i]) = <<>> THEN <<>>
          ELSE <<<<PathOf(ls, n, i), LiteralOf(ValueText(ls[i]))>>>>)
         \o LeafEvents(ls, n, i + 1)

\* C2 as stated: every leaf of a nested-mapping document is emitted with its
\* ancestors' keys followed by its own, and nothing else is emitted.
C2_NestedPathsAnyLeaf ==
    (result = "Ok" /\ IsNestedMapping(on, indent_size, IsSpacedScalarLine))
        => Observed = LeafEvents(SplitLines(on), indent_size, 1)

\* C2 amended: the same, for leaves whose text does not begin with '-'.
C2_NestedPaths ==
    (result = "Ok" /\ IsNestedMapping(on, indent_size, IsPlainScalarLine))
        => Observed = LeafEvents(SplitLines(on), indent_size, 1)

\* a nested-mapping document scanned to its end, where a leaf three levels
\* deep was followed by a leaf at the root
C2_Witness ==
    /\ result = "Ok"
    /\ IsNestedMapping(on, indent_size, IsPlainScalarLine)
    /\ \E n \in 1..(Len(events) - 1) :
          Len(events[n].keys) = 3 /\ Len(events[n + 1].keys) = 1

\* -------------------------------------------------------------------------
\* C3  Root-level mapping.

IsRootMapping(s, IsLeaf(_)) ==
    /\ Terminated(s)
    /\ \A i \in 1..Len(SplitLines(s)) :
          LeadingSpaces(SplitLines(s)[i]) = 0 /\ IsLeaf(SplitLines(s)[i])

RootEvents(s) ==
    [i \in 1..Len(SplitLines(s)) |->
        <<<<KeyText(SplitLines(s)[i])>>, LiteralOf(ValueText(SplitLines(s)[i]))>>]

\* C3 as stated: one event per `key: value` line, with the path [key] and the
\* literal or the trimmed text as the value.
C3_RootMappingAnyValue ==
    (result = "Ok" /\ IsRootMapping(on, IsSpacedScalarLine)) => Observed = RootEvents(on)

\* C3 amended: the same, for values that do not begin with '-'.
C3_RootMapping ==
    (result = "Ok" /\ IsRootMapping(on, IsPlainScalarLine)) => Observed = RootEvents(on)

\* a root mapping of three lines, with true, false and a plain text as values
C3_Witness ==
    /\ result = "Ok"
    /\ IsRootMapping(on, IsPlainScalarLine)
    /\ {events[n].value.tag : n \in 1..Len(events)} = {"True", "False", "String"}


\* -------------------------------------------------------------------------
\* Reading an event back to the lines of the document

\* offset of the first character of the line that holds offset p
RECURSIVE LineStart(_)
LineStart(p) == IF p = 0 \/ on[p] = NL THEN p ELSE LineStart(p - 1)

\* the line that starts at offset p, without its newline
LineAt(p) == SubSeq(on, p + 1, NextNL(on, p))

\* the offsets at which the lines of the document start
LineStarts == {p \in 0..(Len(on) - 1) : p = 0 \/ on[p] = NL}

IsBlank(l) == \A i \in 1..Len(l) : IsWhitespace(l[i])

\* the columns of indentation of a line: a space is 1, a tab indent_size
RECURSIVE IndentCols(_)
IndentCols(l) ==
    IF l = <<>> THEN 0
    ELSE IF l[1] = SP THEN 1 + IndentCols(Tail(l))
    ELSE IF l[1] = TAB THEN indent_size + IndentCols(Tail(l))
    ELSE 0

MultilineEvents == {n \in 1..Len(events) : events[n].value.tag = "MultilineString"}

\* offset at which the text of a MultilineString event starts
TextStart(n) == events[n].at - Len(events[n].value.on)

\* the line that opened the block of MultilineString event n
MarkerLine(n) == LineAt(LineStart(TextStart(n)))

\* -------------------------------------------------------------------------
\* C4  Block-scalar flag: the event of a block opened by '|' has collapse =
\* false, that of a block opened by '>' has collapse = true, and
\* preserve_leading_whitespace is false in both.
C4_BlockScalarFlag ==
    \A n \in MultilineEvents :
        /\ events[n].value.preserve_leading_whitespace = FALSE
        /\ events[n].value.collapse = (ValueText(MarkerLine(n)) = <<">">>)

\* -------------------------------------------------------------------------
\* C5  Block-scalar extent: the text of a block's event ends just before the
\* first line after the marker line that is not blank and is indented no more
\* than the line of the opening key.
ClosingLines(n) ==
    {p \in LineStarts :
        /\ p > TextStart(n)
        /\ ~IsBlank(LineAt(p))
        /\ IndentCols(LineAt(p)) <= IndentCols(MarkerLine(n))}

C5_BlockExtent ==
    \A n \in MultilineEvents :
        ClosingLines(n) # {} => events[n].at = MinOf(ClosingLines(n)) - 1

\* -------------------------------------------------------------------------
\* C6  Inline bracketed list: in the sample document, `list: ["something",
\* "here"]` under `places` gives one event per element, with the paths
\* [places, list, Index(0)] and [places, list, Index(1)], in that order.
PlacesList ==
    <<KeySlice(<<"p", "l", "a", "c", "e", "s">>), KeySlice(<<"l", "i", "s", "t">>)>>

C6_InlineList ==
    (on = ExampleDoc /\ indent_size = DefaultIndentSize /\ result = "Ok")
        => \E n \in 1..(Len(events) - 1) :
              /\ events[n].keys = Append(PlacesList, KeyIndex(0))
              /\ events[n + 1].keys = Append(PlacesList, KeyIndex(1))
              /\ events[n].value.tag = "String"
              /\ events[n + 1].value.tag = "String"

\* -------------------------------------------------------------------------
\* C7  Block-list ordinals: the i-th `- item` line of a block list under a
\* key is emitted with Index(i); every list starts at Index(0).

\* a `- item` line with a scalar item
IsItemLine(l) ==
    LET body == SubSeq(l, LeadingSpaces(l) + 1, Len(l))
    IN  body # <<>> /\ body[1] = "-" /\ ColonAt(l) = 0 /\ ~IsBlank(Tail(body))

\* a `key:` line, without a value
IsOpenerLine(l) == IsKeyLine(l) /\ ValueText(l) = <<>>

\* the number of item lines, indented like the line at p, right before it
RECURSIVE ItemsBefore(_)
ItemsBefore(p) ==
    IF p = 0 THEN 0
    ELSE LET q == LineStart(p - 1)
         IN  IF IsItemLine(LineAt(q))
                /\ LeadingSpaces(LineAt(q)) = LeadingSpaces(LineAt(p))
             THEN 1 + ItemsBefore(q) ELSE 0

\* whether the list of the item line at p hangs under a `key:` line
RECURSIVE UnderKey(_)
UnderKey(p) ==
    IF p = 0 THEN FALSE
    ELSE LET q == LineStart(p - 1)
         IN  IF IsItemLine(LineAt(q))
                /\ LeadingSpaces(LineAt(q)) = LeadingSpaces(LineAt(p))
             THEN UnderKey(q)
             ELSE IsOpenerLine(LineAt(q))
                  /\ LeadingSpaces(LineAt(q)) <= LeadingSpaces(LineAt(p))

C7_ListOrdinals ==
    \A n \in 1..Len(events) :
        LET p == LineStart(events[n].at)
        IN  (IsItemLine(LineAt(p)) /\ UnderKey(p))
                => events[n].keys[Len(events[n].keys)] = KeyIndex(ItemsBefore(p))

\* -------------------------------------------------------------------------
\* C8  Error reporting: the scan of a document that is not valid, such as one
\* with a non-blank line that has no colon and is not a list item, ends with
\* Err.

\* a document without block scalars that has a line of plain text
HasStrayLine(s) ==
    /\ \A i \in 1..Len(s) : s[i] \notin {"|", ">"}
    /\ \E i \in 1..Len(SplitLines(s)) :
          LET l == SplitLines(s)[i]
              body == SubSeq(l, LeadingSpaces(l) + 1, Len(l))
          IN  ~IsBlank(l) /\ ColonAt(l) = 0 /\ body[1] # "-"

C8_ErrorReported == (Done /\ HasStrayLine(on)) => result = "Err"

\* -------------------------------------------------------------------------
\* C9  No panic: no slice of the input and no truncation of the key chain is
\* out of range, whatever the input.
C9_NoPanic == result # "panic"

\* the scan of a document with a stray line has ended after a dedent shortened
\* the key chain between two events
C9_Witness ==
    /\ result = "Ok"
    /\ HasStrayLine(on)
    /\ \E n \in 1..(Len(events) - 1) : Len(events[n + 1].keys) < Len(events[n].keys)

\* -------------------------------------------------------------------------
\* C10  Unflushed tail: every event is emitted while a newline is consumed;
\* so the text on the last line of a document that does not end with a
\* newline gives no event, and the scan returns Ok(()).
C10_UnflushedTail ==
    /\ \A n \in 1..Len(events) :
          events[n].at < Len(on) /\ on[events[n].at + 1] = NL
    /\ (Done /\ ~Terminated(on)) =>
          /\ result = "Ok"
          /\ \A n \in 1..Len(events) : events[n].at < LineStart(Len(on))

\* the scan of a document without a final newline has ended with a scalar
\* value pending on the last line, after an earlier event
C10_Witness ==
    /\ result = "Ok"
    /\ ~Terminated(on)
    /\ state.tag = "Value"
    /\ Trim(Slice(start, Len(on))) # <<>>
    /\ ~IsMarker(Trim(Slice(start, Len(on))))
    /\ events # <<>>


\* ---------------------------------------------------------------------------
\* C11: indentation is measured in columns, a tab counting indent_size and a
\* space 1, in both places that measure it: each space or tab consumed in the
\* Skip state adds its columns to the indentation counter, and a newline
\* consumed in the Multiline state before a non-empty follow-on line ends
\* the block exactly when the columns of indentation of that line are at most
\* the indentation recorded for the block.
C11_IndentMeasure ==
    [][ Running =>
          LET chr == on[pos + 1]
          IN  /\ (state.tag = "Skip" /\ chr \in {SP, TAB})
                    => indent' = indent + IndentCols(<<chr>>)
              /\ (state.tag = "Multiline" /\ chr = NL /\ ~UpcomingIsEmpty(pos + 1))
                    => (state'.tag = "Skip"
                          <=> IndentCols(LineAt(pos + 1)) <= state.indent) ]_vars


IsBlankLineAt(p) ==
    LET l == LineAt(p)
    IN  /\ p + Len(l) < Len(on)
        /\ \A i \in 1..Len(l) : l[i] \in {SP, TAB}

C13_BlankLineKeepsBlock ==
    [][ (Running /\ state.tag = "Multiline" /\ on[pos + 1] = NL) =>
          /\ IsBlankLineAt(pos + 1)
                => /\ state' = state
                   /\ start' = start
                   /\ key_chain' = key_chain
                   /\ events' = events
          /\ events' # events
                => LET e == events'[Len(events')]
                   IN  \A p \in (start + 1)..pos :
                          (on[p] = NL /\ IsBlankLineAt(p))
                              => /\ e.at - Len(e.value.on) < p
                                 /\ p + Len(LineAt(p)) <= e.at ]_vars

\* a block is emitted whose key is not on the first line and whose text
\* holds a line of spaces or tabs only, indented no deeper than the key
C13_Witness ==
    \E n \in MultilineEvents :
        \E p \in (TextStart(n) + 1)..events[n].at :
            /\ LineStart(TextStart(n)) > 0
            /\ on[p] = NL
            /\ IsBlankLineAt(p)
            /\ Len(LineAt(p)) >= 1
            /\ IndentCols(LineAt(p)) <= IndentCols(MarkerLine(n))
            /\ p > TextStart(n) + 1


\* ---------------------------------------------------------------------------
\* C14: when ':' is consumed in the Identifier state, with currentLevel =
\* indent / indent_size and the new Named key the trimmed text since `start`:
\* (a) if currentLevel is less than the number of Named entries of the
\* key-path, the key-path becomes its first currentLevel entries followed by
\* the new key, and the list ordinal becomes the ordinal of the last retained
\* entry when that entry is an Index and 0 otherwise; (b) if not, the key-path
\* becomes itself followed by the new key and the list ordinal is unchanged.
NamedCount(chain) == Cardinality({i \in 1..Len(chain) : chain[i].tag = "Slice"})

C14_ReAnchor ==
    [][ (Running /\ state.tag = "Identifier" /\ on[pos + 1] = ":") =>
          LET currentLevel == indent \div indent_size
              named == KeySlice(Trim(SubSeq(on, start + 1, pos)))
          IN  IF currentLevel < NamedCount(key_chain)
              THEN /\ key_chain' = SubSeq(key_chain, 1, currentLevel) \o <<named>>
                   /\ list_idx' = IF currentLevel >= 1 /\ key_chain[currentLevel].tag = "Index"
                                  THEN key_chain[currentLevel].idx ELSE 0
              ELSE /\ key_chain' = key_chain \o <<named>>
                   /\ list_idx' = list_idx ]_vars

\* a key has just been re-anchored after the Index of the second item of a
\* list, a deeper Named key discarded, and the list ordinal resumed from
\* that Index
C14_Witness ==
    /\ state.tag = "Value"
    /\ pos >= 1
    /\ on[pos] = ":"
    /\ Len(key_chain) >= 2
    /\ key_chain[Len(key_chain) - 1].tag = "Index"
    /\ key_chain[Len(key_chain) - 1].idx >= 1
    /\ list_idx = key_chain[Len(key_chain) - 1].idx
    /\ NamedCount(key_chain) <= indent \div indent_size


\* ---------------------------------------------------------------------------
\* C15: for a block list under a key whose items are mappings (`- name:
\* value`, possibly followed by `field: value` lines indented under the
\* item), every field event of the k-th item, counting from 0, has the
\* key-path [list key, Index(k), Named(field)]: one Index entry, and no key
\* of an earlier item.

\* an item line `- name: value` with a one-line scalar value
IsMappingItemLine(l) ==
    LET body == SubSeq(l, LeadingSpaces(l) + 1, Len(l))
    IN  /\ Len(body) >= 2
        /\ body[1] = "-"
        /\ body[2] = SP
        /\ IsPlainScalarLine(SubSeq(body, 3, Len(body)))
        /\ body[3] # SP

\* the `name: value` of an item line, or of a field line
FieldOf(l) ==
    IF IsMappingItemLine(l) THEN SubSeq(l, LeadingSpaces(l) + 3, Len(l)) ELSE l

\* the lines ls are a `key:` line at the root and under it a list of
\* mappings: item lines at the column of the key or indent_size deeper, each
\* followed by field lines aligned with the item's first field
IsMappingList(ls) ==
    /\ Len(ls) >= 2
    /\ IsOpenerLine(ls[1])
    /\ LeadingSpaces(ls[1]) = 0
    /\ IsMappingItemLine(ls[2])
    /\ LeadingSpaces(ls[2]) \in {0, indent_size}
    /\ \A i \in 3..Len(ls) :
          \/ IsMappingItemLine(ls[i]) /\ LeadingSpaces(ls[i]) = LeadingSpaces(ls[2])
          \/ IsPlainScalarLine(ls[i]) /\ LeadingSpaces(ls[i]) = LeadingSpaces(ls[2]) + 2

\* the events of lines i.. of such a list, k the ordinal of the last item
RECURSIVE FieldEvents(_, _, _)
FieldEvents(ls, i, k) ==
    IF i > Len(ls) THEN <<>>
    ELSE LET item == IF IsMappingItemLine(ls[i]) THEN k + 1 ELSE k
             field == FieldOf(ls[i])
         IN  << << <<KeySlice(KeyText(ls[1])), KeyIndex(item), KeySlice(KeyText(field))>>,
                   LiteralOf(ValueText(field)) >> >>
             \o FieldEvents(ls, i + 1, item)

C15_ListOfMappings ==
    (Done /\ Terminated(on) /\ IsMappingList(SplitLines(on)))
        => [n \in 1..Len(events) |->
              <<events[n].keys, <<events[n].value.tag, events[n].value.on>>>>]
           = FieldEvents(SplitLines(on), 2, -1)


\* ---------------------------------------------------------------------------
\* C16: an Index key is on the key-path only while a list item is assembled:
\* when the scanner is in the Skip state right after an event has fired, the
\* key-path holds no Index entry.
C16_IndexTransient ==
    ( /\ state.tag = "Skip"
      /\ events # <<>>
      /\ pos = events[Len(events)].at + 1 )
        => \A i \in 1..Len(key_chain) : key_chain[i].tag # "Index"


\* ---------------------------------------------------------------------------
\* C17, as claimed: at every point of a scan the number of Named entries of
\* the key-path equals the indentation counter divided by indent_size.
C17_DepthInvariant == NamedCount(key_chain) = indent \div indent_size

\* C17, amended: when ':' is consumed in the Identifier state, with
\* currentLevel = indent / indent_size, the key-path after the push holds at
\* most currentLevel + 1 Named entries, and exactly currentLevel + 1 when the
\* key-path before held at least currentLevel Named entries and no Index
\* among its first currentLevel entries.
C17_DepthAfterKey ==
    [][ (Running /\ state.tag = "Identifier" /\ on[pos + 1] = ":") =>
          LET currentLevel == indent \div indent_size
          IN  /\ NamedCount(key_chain') <= currentLevel + 1
              /\ ( /\ NamedCount(key_chain) >= currentLevel
                    /\ \A i \in 1..currentLevel :
                          i <= Len(key_chain) => key_chain[i].tag = "Slice" )
                    => NamedCount(key_chain') = currentLevel + 1 ]_vars

\* a key at level 1 has just been pushed after a key at level 2 was closed:
\* the key-path is two Named keys
C17_Witness ==
    /\ state.tag = "Value"
    /\ pos >= 1
    /\ on[pos] = ":"
    /\ indent \div indent_size = 1
    /\ Len(key_chain) = 2
    /\ NamedCount(key_chain) = 2
    /\ \E n \in 1..Len(events) : NamedCount(events[n].keys) = 3


\* ---------------------------------------------------------------------------
\* C18: the Named key pushed when ':' is consumed in the Identifier state is
\* the trimmed text between the start of the line that holds the ':' and the
\* ':'; it holds no newline and no text of an earlier line.
C18_KeyOnOneLine ==
    [][ (Running /\ state.tag = "Identifier" /\ on[pos + 1] = ":") =>
          LET key == key_chain'[Len(key_chain')]
          IN  /\ key = KeySlice(Trim(SubSeq(on, LineStart(pos) + 1, pos)))
              /\ \A i \in 1..Len(key.text) : key.text[i] # NL ]_vars


\* ---------------------------------------------------------------------------
\* C19: whenever ':' is about to be consumed in the Identifier state, the
\* indentation counter equals the number of indentation columns (a tab is
\* indent_size, a space 1) that precede the key on the line of the ':';
\* blank lines, whitespace-only lines and leading whitespace on the first
\* line do not change it.
C19_IndentOfOwnLine ==
    (Running /\ state.tag = "Identifier" /\ on[pos + 1] = ":")
        => indent = IndentCols(LineAt(LineStart(pos)))


====
